---- MODULE Spec2Model ----
(***************************************************************************)
(* Song Management System: the record store with its validation layer and  *)
(* CRUD/statistics controllers (backend), and the redux-saga orchestrator  *)
(* with the redux slices it drives (frontend).                             *)
(*                                                                         *)
(* Text is a sequence of one-character strings, so that trimming, length   *)
(* bounds and the identifier pattern are computed, not assumed.            *)
(***************************************************************************)
EXTENDS Integers, Sequences, FiniteSets, TLC

VARIABLES
    store,       \* the songs collection, in natural (insertion) order
    nextId,      \* the ObjectId generator's counter
    clock,       \* the server's current time (Date.now())
    req,         \* the HTTP request handled last
    res,         \* the HTTP response sent last
    songs,       \* client: state.songs   (items, loading, error)
    statistics,  \* client: state.statistics (data, loading, error)
    filters,     \* client: state.filters (genre)
    net,         \* client: the api calls in flight, oldest first, each with
                 \* the saga task that awaits it
    calls        \* client: the number of api calls issued so far

serverVars == <<store, nextId, clock, req, res>>
clientVars == <<songs, statistics, filters, net, calls>>
vars == <<store, nextId, clock, req, res, songs, statistics, filters, net, calls>>

----------------------------------------------------------------------------
(* Bounds of the model *)

MaxIds == 2          \* how many records are ever created
MaxClock == 1        \* how far the clock advances
MaxInFlight == 2     \* how many api calls are in flight at once
MaxCalls == 5        \* how many api calls the client issues

----------------------------------------------------------------------------
(* Text *)

TitleMax == 200
ArtistMax == 100
AlbumMax == 200
GenreMax == 50

Fields == <<"title", "artist", "album", "genre">>
FieldSet == {"title", "artist", "album", "genre"}

MaxLen(f) ==
    CASE f = "title" -> TitleMax
      [] f = "artist" -> ArtistMax
      [] f = "album" -> AlbumMax
      [] f = "genre" -> GenreMax

IsSpace(c) == c = " "

RECURSIVE TrimStart(_)
TrimStart(s) ==
    IF s = <<>> THEN s
    ELSE IF IsSpace(Head(s)) THEN TrimStart(Tail(s)) ELSE s

RECURSIVE TrimEnd(_)
TrimEnd(s) ==
    IF s = <<>> THEN s
    ELSE IF IsSpace(s[Len(s)]) THEN TrimEnd(SubSeq(s, 1, Len(s) - 1)) ELSE s

\* String.prototype.trim
Trim(s) == TrimEnd(TrimStart(s))

Rep(c, n) == [i \in 1..n |-> c]

----------------------------------------------------------------------------
(* Identifiers *)

HexChars == {"0", "1", "2", "3", "4", "5", "6", "7", "8", "9",
             "a", "b", "c", "d", "e", "f", "A", "B", "C", "D", "E", "F"}
Digit == <<"0", "1", "2", "3", "4", "5", "6", "7", "8", "9">>
IdLen == 24

\* the n-th identifier the generator hands out
ObjectId(n) == [i \in 1..IdLen |-> IF i = IdLen THEN Digit[n + 1] ELSE "0"]

\* an id check that looks at the length only
IsValidIdLength(id) == Len(id) = IdLen

\* id.match(/^[0-9a-fA-F]{24}$/)
IsValidIdFormat(id) == Len(id) = IdLen /\ \A i \in 1..Len(id) : id[i] \in HexChars

ReusedObjectId(st, n) == ObjectId(Len(st))

StuckObjectId(st, n) == ObjectId(0)

\* new Song(value): mongoose assigns _id from the ObjectId generator
NewObjectId(st, n) == ObjectId(n)

----------------------------------------------------------------------------
(* Validation layer: songValidationSchema.validate(req.body) *)

FieldErrorUntrimmed(body, f) ==
    IF f \notin DOMAIN body THEN "any.required"
    ELSE IF body[f] = <<>> THEN "string.empty"
    ELSE IF Len(body[f]) > MaxLen(f) THEN "string.max"
    ELSE "ok"

\* what Joi reports for one key: string().trim().min(1).max(n).required();
\* the value is trimmed (convert) before the rules are applied
FieldError(body, f) ==
    IF f \notin DOMAIN body THEN "any.required"
    ELSE IF Trim(body[f]) = <<>> THEN "string.empty"
    ELSE IF Len(Trim(body[f])) > MaxLen(f) THEN "string.max"
    ELSE "ok"

\* the keys that break a rule, in schema order
Violations(body) == SelectSeq(Fields, LAMBDA f : FieldError(body, f) # "ok")

\* validate() is called without options, so abortEarly is on: Joi stops
\* at the first key that fails
ReportedFields(body) ==
    LET all == Violations(body)
    IN IF all = <<>> THEN <<>> ELSE <<Head(all)>>

\* the body as it was sent
NormalizeUntrimmed(body) == [f \in FieldSet |-> body[f]]

\* the value Joi returns for a valid body
Normalize(body) == [f \in FieldSet |-> Trim(body[f])]

\* error.details.map(detail => ({field: detail.path[0], message}))
Details(body) ==
    LET reported == ReportedFields(body)
    IN [i \in 1..Len(reported) |->
            [field |-> reported[i], type |-> FieldError(body, reported[i])]]

IsValid(body) == Violations(body) = <<>>

----------------------------------------------------------------------------
(* Record store: the Song model *)

NoData == <<>>
NoBody == <<>>
NoId == <<>>
NoText == <<>>

\* the elements of a sequence, and the ids of a sequence of documents
Range(seq) == {seq[i] : i \in 1..Len(seq)}
Ids(seq) == {seq[i]._id : i \in 1..Len(seq)}

\* positions of the documents with this _id
IndexOf(st, id) == {i \in 1..Len(st) : st[i]._id = id}

\* Song.findById(id): the document, or NoData for null
FindById(st, id) ==
    IF IndexOf(st, id) = {} THEN NoData ELSE st[CHOOSE i \in IndexOf(st, id) : TRUE]

\* new Song(value) then save(): timestamps: true sets both to now
NewSong(st, nid, now, value) ==
    [_id |-> NewObjectId(st, nid),
     title |-> value.title, artist |-> value.artist,
     album |-> value.album, genre |-> value.genre,
     createdAt |-> now, updatedAt |-> now]

TouchAll(doc, now, value) ==
    [doc EXCEPT !.title = value.title, !.artist = value.artist,
                !.album = value.album, !.genre = value.genre,
                !.createdAt = now, !.updatedAt = now]

\* findByIdAndUpdate(id, value, {new: true}): the four fields are set and
\* the timestamps plugin sets updatedAt; createdAt is only set on insert
Replaced(doc, now, value) ==
    [doc EXCEPT !.title = value.title, !.artist = value.artist,
                !.album = value.album, !.genre = value.genre,
                !.updatedAt = now]

RemovedNothing(st, id) == st

\* findByIdAndDelete(id)
Removed(st, id) == SelectSeq(st, LAMBDA d : d._id # id)

Injections(n) == {p \in [1..n -> 1..n] : \A i, j \in 1..n : i # j => p[i] # p[j]}

\* a sort on createdAt ascending
SortedByCreatedAsc(docs) ==
    {[i \in 1..Len(docs) |-> docs[p[i]]] : p \in
        {q \in Injections(Len(docs)) :
            \A i, j \in 1..Len(docs) :
                i < j => docs[q[i]].createdAt <= docs[q[j]].createdAt}}

\* .sort({createdAt: -1}): every order the sort may return (documents with
\* the same createdAt come back in any order)
SortedByCreatedDesc(docs) ==
    {[i \in 1..Len(docs) |-> docs[p[i]]] : p \in
        {q \in Injections(Len(docs)) :
            \A i, j \in 1..Len(docs) :
                i < j => docs[q[i]].createdAt >= docs[q[j]].createdAt}}

\* lower case of a character, and of a text
Lower(c) == IF c = "R" THEN "r" ELSE IF c = "M" THEN "m" ELSE c
LowerText(text) == [i \in 1..Len(text) |-> Lower(text[i])]

\* x occurs in text as a substring, letter case ignored
ContainsIgnoreCase(text, x) ==
    \E k \in 0..(Len(text) - Len(x)) :
        LowerText(SubSeq(text, k + 1, k + Len(x))) = LowerText(x)

\* a find with {genre: new RegExp(genre, 'i')}
FindByGenreRegExp(st, genre) ==
    SelectSeq(st, LAMBDA d : ContainsIgnoreCase(d.genre, genre))

\* Song.find({genre: genre}): exact match on the stored value
FindByGenreExact(st, genre) == SelectSeq(st, LAMBDA d : d.genre = genre)

----------------------------------------------------------------------------
(* Aggregation engine: the $facet pipeline of getStatistics *)

\* { $group: { _id: <key>, count: { $sum: 1 } } } over the keys of the
\* scanned documents: one entry per distinct key, counting its documents
RECURSIVE GroupCount(_, _)
GroupCount(keys, acc) ==
    IF keys = <<>> THEN acc
    ELSE LET k == Head(keys)
             hit == {i \in 1..Len(acc) : acc[i]._id = k}
         IN GroupCount(Tail(keys),
                IF hit = {} THEN Append(acc, [_id |-> k, count |-> 1])
                ELSE [i \in 1..Len(acc) |->
                        IF i \in hit THEN [acc[i] EXCEPT !.count = @ + 1]
                        ELSE acc[i]])

KeysOf(st, f) == [i \in 1..Len(st) |-> st[i][f]]

GroupPresence(st, f) ==
    [i \in 1..Len(GroupCount(KeysOf(st, f), <<>>)) |->
        [GroupCount(KeysOf(st, f), <<>>)[i] EXCEPT !.count = 1]]

\* [{ $group: { _id: "$f", count: { $sum: 1 } } }]
GroupBy(st, f) == GroupCount(KeysOf(st, f), <<>>)

\* a second stage that counts the records of the artist
GroupSongsByArtist(st) == GroupCount(KeysOf(st, "artist"), <<>>)

\* a first stage that groups albums with their letter case folded
GroupAlbumsByArtistIgnoreCase(st) ==
    LET pairs == GroupCount([i \in 1..Len(st) |->
                                <<st[i].artist, LowerText(st[i].album)>>], <<>>)
    IN GroupCount([i \in 1..Len(pairs) |-> pairs[i]._id[1]], <<>>)

\* [{ $group: { _id: {artist, album} } }, { $group: { _id: "$_id.artist",
\*   count: { $sum: 1 } } }]
GroupAlbumsByArtist(st) ==
    LET pairs == GroupCount([i \in 1..Len(st) |-> <<st[i].artist, st[i].album>>], <<>>)
    IN GroupCount([i \in 1..Len(pairs) |-> pairs[i]._id[1]], <<>>)

\* { $sort: { count: -1 } } (insertion sort, highest count first)
RECURSIVE InsertDesc(_, _)
InsertDesc(e, sorted) ==
    IF sorted = <<>> THEN <<e>>
    ELSE IF e.count > Head(sorted).count THEN <<e>> \o sorted
    ELSE <<Head(sorted)>> \o InsertDesc(e, Tail(sorted))

RECURSIVE SortByCountDesc(_)
SortByCountDesc(arr) ==
    IF arr = <<>> THEN <<>> ELSE InsertDesc(Head(arr), SortByCountDesc(Tail(arr)))

\* [..., { $count: "count" }]: one document holding the number of inputs,
\* no document at all when there are no inputs
CountStage(arr) == IF arr = <<>> THEN <<>> ELSE <<[count |-> Len(arr)]>>

\* result.x[0]?.count || 0
FirstCountOrZero(arr) == IF arr = <<>> THEN 0 ELSE arr[1].count

\* arr.reduce((acc, curr) => ({...acc, [curr._id]: curr.count}), {})
RECURSIVE ToMapFrom(_, _)
ToMapFrom(arr, acc) ==
    IF arr = <<>> THEN acc
    ELSE ToMapFrom(Tail(arr),
            [k \in DOMAIN acc \cup {Head(arr)._id} |->
                IF k = Head(arr)._id THEN Head(arr).count ELSE acc[k]])

ToMap(arr) == ToMapFrom(arr, [k \in {} |-> 0])

ComputeStatisticsAlbumsFromArtist(st) ==
    [totalSongs |-> FirstCountOrZero(CountStage(st)),
     totalArtists |-> FirstCountOrZero(CountStage(GroupBy(st, "artist"))),
     totalAlbums |-> FirstCountOrZero(CountStage(GroupBy(st, "artist"))),
     totalGenres |-> FirstCountOrZero(CountStage(GroupBy(st, "genre"))),
     songsByGenre |-> ToMap(SortByCountDesc(GroupBy(st, "genre"))),
     songsByArtist |-> ToMap(SortByCountDesc(GroupBy(st, "artist"))),
     albumsByArtist |-> ToMap(SortByCountDesc(GroupAlbumsByArtist(st))),
     songsByAlbum |-> ToMap(SortByCountDesc(GroupBy(st, "album")))]

\* formattedStats
ComputeStatistics(st) ==
    [totalSongs |-> FirstCountOrZero(CountStage(st)),
     totalArtists |-> FirstCountOrZero(CountStage(GroupBy(st, "artist"))),
     totalAlbums |-> FirstCountOrZero(CountStage(GroupBy(st, "album"))),
     totalGenres |-> FirstCountOrZero(CountStage(GroupBy(st, "genre"))),
     songsByGenre |-> ToMap(SortByCountDesc(GroupBy(st, "genre"))),
     songsByArtist |-> ToMap(SortByCountDesc(GroupBy(st, "artist"))),
     albumsByArtist |-> ToMap(SortByCountDesc(GroupAlbumsByArtist(st))),
     songsByAlbum |-> ToMap(SortByCountDesc(GroupBy(st, "album")))]

----------------------------------------------------------------------------
(* CRUD service: the controllers.  A handler maps the collection, the id  *)
(* counter, the time, the request and whether the database call throws to *)
(* the collection, the counter and the response it leaves.                *)

\* res.status(s).json({success: true, data, count?, message})
Success(s, d, n, msg) ==
    [status |-> s, success |-> TRUE, code |-> "", message |-> msg, data |-> d,
     details |-> <<>>, count |-> n, logged |-> FALSE]

\* res.status(s).json({success: false, error: {message, code, details?}})
\* lg: the handler's catch block wrote the error with console.error
Failure(s, c, msg, det, lg) ==
    [status |-> s, success |-> FALSE, code |-> c, message |-> msg, data |-> NoData,
     details |-> det, count |-> 0, logged |-> lg]

Outcome(st, nid, r) == [store |-> st, nextId |-> nid, res |-> r]

\* a createSong whose save writes the document and then throws
CreateSongSavedBeforeThrow(st, nid, now, body, fail) ==
    IF ~IsValid(body)
    THEN Outcome(st, nid, Failure(400, "VALIDATION_ERROR", "Validation failed", Details(body), FALSE))
    ELSE IF fail
    THEN Outcome(Append(st, NewSong(st, nid, now, Normalize(body))), nid + 1,
                 Failure(500, "INTERNAL_ERROR", "Failed to create song", <<>>, TRUE))
    ELSE Outcome(Append(st, NewSong(st, nid, now, Normalize(body))), nid + 1,
                 Success(201, NewSong(st, nid, now, Normalize(body)), 0,
                         "Song created successfully"))

\* createSong
CreateSongHandler(st, nid, now, body, fail) ==
    IF ~IsValid(body)
    THEN Outcome(st, nid, Failure(400, "VALIDATION_ERROR", "Validation failed", Details(body), FALSE))
    ELSE IF fail
    THEN Outcome(st, nid + 1, Failure(500, "INTERNAL_ERROR", "Failed to create song", <<>>, TRUE))
    ELSE Outcome(Append(st, NewSong(st, nid, now, Normalize(body))), nid + 1,
                 Success(201, NewSong(st, nid, now, Normalize(body)), 0,
                         "Song created successfully"))

\* getAllSongs, for one order the sort returns
GetAllSongsHandler(st, nid, sorted, fail) ==
    IF fail
    THEN Outcome(st, nid, Failure(500, "INTERNAL_ERROR", "Failed to retrieve songs", <<>>, TRUE))
    ELSE Outcome(st, nid, Success(200, sorted, Len(sorted),
                    IF Len(sorted) = 0 THEN "No songs found"
                    ELSE "Songs retrieved successfully"))

\* an update that writes the body to every document (updateMany)
UpdateSongMany(st, nid, now, id, body, fail) ==
    IF ~IsValidIdFormat(id) \/ ~IsValid(body) \/ fail \/ IndexOf(st, id) = {}
    THEN Outcome(st, nid, Failure(400, "", "", <<>>, FALSE))
    ELSE Outcome([i \in 1..Len(st) |-> Replaced(st[i], now, Normalize(body))],
                 nid,
                 Success(200, Replaced(FindById(st, id), now, Normalize(body)), 0,
                         "Song updated successfully"))

\* an updateSong that validates the body before it looks at the id
UpdateSongValidatingFirst(st, nid, now, id, body, fail) ==
    IF ~IsValid(body)
    THEN Outcome(st, nid, Failure(400, "VALIDATION_ERROR", "Validation failed", Details(body), FALSE))
    ELSE IF ~IsValidIdFormat(id)
    THEN Outcome(st, nid, Failure(400, "INVALID_ID", "Invalid song ID format", <<>>, FALSE))
    ELSE IF fail
    THEN Outcome(st, nid, Failure(500, "INTERNAL_ERROR", "Failed to update song", <<>>, TRUE))
    ELSE IF IndexOf(st, id) = {}
    THEN Outcome(st, nid, Failure(404, "SONG_NOT_FOUND", "Song not found", <<>>, FALSE))
    ELSE Outcome([i \in 1..Len(st) |->
                    IF i \in IndexOf(st, id)
                    THEN Replaced(st[i], now, Normalize(body)) ELSE st[i]],
                 nid,
                 Success(200, Replaced(FindById(st, id), now, Normalize(body)), 0,
                         "Song updated successfully"))

\* an updateSong whose findByIdAndUpdate inserts the document when no
\* document has the id (upsert: true)
UpdateSongUpserting(st, nid, now, id, body, fail) ==
    IF ~IsValidIdFormat(id)
    THEN Outcome(st, nid, Failure(400, "INVALID_ID", "Invalid song ID format", <<>>, FALSE))
    ELSE IF ~IsValid(body)
    THEN Outcome(st, nid, Failure(400, "VALIDATION_ERROR", "Validation failed", Details(body), FALSE))
    ELSE IF fail
    THEN Outcome(st, nid, Failure(500, "INTERNAL_ERROR", "Failed to update song", <<>>, TRUE))
    ELSE IF IndexOf(st, id) = {}
    THEN Outcome(Append(st, [NewSong(st, nid, now, Normalize(body)) EXCEPT !._id = id]),
                 nid,
                 Success(200, [NewSong(st, nid, now, Normalize(body)) EXCEPT !._id = id], 0,
                         "Song updated successfully"))
    ELSE Outcome([i \in 1..Len(st) |->
                    IF i \in IndexOf(st, id)
                    THEN Replaced(st[i], now, Normalize(body)) ELSE st[i]],
                 nid,
                 Success(200, Replaced(FindById(st, id), now, Normalize(body)), 0,
                         "Song updated successfully"))

\* updateSong
UpdateSongHandler(st, nid, now, id, body, fail) ==
    IF ~IsValidIdFormat(id)
    THEN Outcome(st, nid, Failure(400, "INVALID_ID", "Invalid song ID format", <<>>, FALSE))
    ELSE IF ~IsValid(body)
    THEN Outcome(st, nid, Failure(400, "VALIDATION_ERROR", "Validation failed", Details(body), FALSE))
    ELSE IF fail
    THEN Outcome(st, nid, Failure(500, "INTERNAL_ERROR", "Failed to update song", <<>>, TRUE))
    ELSE IF IndexOf(st, id) = {}
    THEN Outcome(st, nid, Failure(404, "SONG_NOT_FOUND", "Song not found", <<>>, FALSE))
    ELSE Outcome([i \in 1..Len(st) |->
                    IF i \in IndexOf(st, id)
                    THEN Replaced(st[i], now, Normalize(body)) ELSE st[i]],
                 nid,
                 Success(200, Replaced(FindById(st, id), now, Normalize(body)), 0,
                         "Song updated successfully"))

\* a deleteSong that does not look at what findByIdAndDelete returned
DeleteSongIdempotent(st, nid, id, fail) ==
    IF ~IsValidIdFormat(id)
    THEN Outcome(st, nid, Failure(400, "INVALID_ID", "Invalid song ID format", <<>>, FALSE))
    ELSE IF fail
    THEN Outcome(st, nid, Failure(500, "INTERNAL_ERROR", "Failed to delete song", <<>>, TRUE))
    ELSE Outcome(Removed(st, id), nid, Success(200, FindById(st, id), 0,
                              "Song deleted successfully"))

\* deleteSong
DeleteSongHandler(st, nid, id, fail) ==
    IF ~IsValidIdFormat(id)
    THEN Outcome(st, nid, Failure(400, "INVALID_ID", "Invalid song ID format", <<>>, FALSE))
    ELSE IF fail
    THEN Outcome(st, nid, Failure(500, "INTERNAL_ERROR", "Failed to delete song", <<>>, TRUE))
    ELSE IF IndexOf(st, id) = {}
    THEN Outcome(st, nid, Failure(404, "SONG_NOT_FOUND", "Song not found", <<>>, FALSE))
    ELSE Outcome(Removed(st, id), nid, Success(200, FindById(st, id), 0,
                              "Song deleted successfully"))

\* filterSongs, for one order the sort returns; genre is NoText when the
\* query parameter is missing or empty (!genre)
FilterSongsHandler(st, nid, genre, sorted, fail) ==
    IF genre = NoText
    THEN Outcome(st, nid, Failure(400, "MISSING_PARAMETER", "Genre query parameter is required", <<>>, FALSE))
    ELSE IF fail
    THEN Outcome(st, nid, Failure(500, "INTERNAL_ERROR", "Failed to filter songs", <<>>, TRUE))
    ELSE Outcome(st, nid, Success(200, sorted, Len(sorted),
                    IF Len(sorted) = 0 THEN "No songs found for genre"
                    ELSE "Songs filtered by genre"))

\* getStatistics
GetStatisticsHandler(st, nid, fail) ==
    IF fail
    THEN Outcome(st, nid, Failure(500, "INTERNAL_ERROR", "Failed to retrieve statistics", <<>>, TRUE))
    ELSE Outcome(st, nid, Success(200, ComputeStatistics(st), 0,
                              "Statistics retrieved successfully"))

----------------------------------------------------------------------------
(* Inputs of the server model *)

Song1 == [title |-> <<"a">>, artist |-> <<"x">>, album |-> <<"m">>, genre |-> <<"r">>]
\* same artist as Song1; album and genre differ from Song1's by case only
Song2 == [title |-> <<"b">>, artist |-> <<"x">>, album |-> <<"M">>, genre |-> <<"R">>]
\* another artist with Song1's album and genre
Song3 == [title |-> <<"b">>, artist |-> <<"y">>, album |-> <<"m">>, genre |-> <<"r">>]
\* Song1 with whitespace around every field
Song1Padded ==
    [title |-> <<" ", "a">>, artist |-> <<"x", " ">>,
     album |-> <<" ", "m", " ">>, genre |-> <<" ", " ", "r">>]


Without(body, f) == [g \in DOMAIN body \ {f} |-> body[g]]
With(body, f, text) == [g \in DOMAIN body \cup {f} |-> IF g = f THEN text ELSE body[g]]

\* Song1 with a genre of the greatest length allowed after a space: one
\* character too long as sent, within the bound once trimmed
Song1PaddedLong == With(Song1, "genre", <<" ">> \o Rep("x", GenreMax))

ValidBodies == {Song1, Song2, Song1Padded}

\* Song1 with one field absent, empty, blank, or one character too long
OneFieldBad ==
    {Without(Song1, f) : f \in FieldSet}
    \cup {With(Song1, f, <<>>) : f \in FieldSet}
    \cup {With(Song1, f, <<" ", " ">>) : f \in FieldSet}
    \cup {With(Song1, f, Rep("x", MaxLen(f) + 1)) : f \in FieldSet}

\* several fields bad at once, and bodies that supply only some fields
ManyFieldsBad ==
    {With(With(Song1, "artist", <<>>), "genre", <<" ">>),
     Without(Without(Song2, "title"), "album"),
     [title |-> <<"b">>],
     [genre |-> <<"R">>, artist |-> <<"y">>],
     NoBody}

InvalidBodies == OneFieldBad \cup ManyFieldsBad

Bodies == ValidBodies \cup InvalidBodies

\* malformed identifiers: too short, too long, a character that is not hex
ShortId == SubSeq(ObjectId(0), 1, IdLen - 1)
LongId == ObjectId(0) \o <<"0">>
NonHexId == [ObjectId(0) EXCEPT ![1] = "g"]
MalformedIds == {ShortId, LongId, NonHexId}

\* well-formed identifiers: every id the generator can hand out and one more
WellFormedIds == {ObjectId(n) : n \in 0..MaxIds}

AllIds == WellFormedIds \cup MalformedIds

\* an invalid body: Song1 without a genre text
Song1NoGenre == With(Song1, "genre", <<>>)

\* an invalid body: Song1 with a genre one character too long
Song1LongGenre == With(Song1, "genre", Rep("x", GenreMax + 1))

\* the bodies the store model creates records from
CrudBodies == {Song1, Song2, Song1Padded, Song1NoGenre}

\* the identifiers the store model updates and deletes with
CrudIds == WellFormedIds \cup {NonHexId}

\* the (id, body) pairs the store model updates with
UpdateInputs ==
    {<<id, b>> : id \in CrudIds, b \in {Song1, Song2}}
    \cup {<<ObjectId(0), b>> : b \in {Song1Padded, Song1LongGenre, [title |-> <<"b">>]}}

\* the bodies the statistics model creates and updates records with
StatisticsBodies == {Song1, Song2, Song3}

\* the (id, body) pairs the validation model updates with: every body
\* against the first id, two invalid bodies against every other id
ValidationUpdateInputs ==
    {<<ObjectId(0), b>> : b \in Bodies}
    \cup {<<id, b>> : id \in AllIds \ {ObjectId(0)},
                      b \in {Song1NoGenre, [title |-> <<"b">>]}}

GenreQueries == {NoText, <<"r">>, <<"R">>, <<"p">>}

\* the route and its parameters (:id, ?genre=)
Request(o, i, g) == [op |-> o, id |-> i, genre |-> g]

----------------------------------------------------------------------------
(* The server as a state machine: one action per route *)

\* error: null
NoError == <<>>

\* statistics data: null
NoStatistics == [none |-> TRUE]

\* initialState of the three slices, and no saga task running
InitClient ==
    /\ songs = [items |-> <<>>, loading |-> FALSE, error |-> NoError]
    /\ statistics = [data |-> NoStatistics, loading |-> FALSE, error |-> NoError]
    /\ filters = [genre |-> NoText]
    /\ net = <<>>
    /\ calls = 0

Init ==
    /\ store = <<>>
    /\ nextId = 0
    /\ clock = 0
    /\ req = Request("none", NoId, NoText)
    /\ res = Failure(0, "", "", <<>>, FALSE)
    /\ InitClient

Apply(out, r) ==
    /\ req' = r
    /\ LET o == out
       IN /\ store' = o.store
          /\ nextId' = o.nextId
          /\ res' = o.res
    /\ UNCHANGED <<clock, songs, statistics, filters, net, calls>>

\* time passes
Tick ==
    /\ clock < MaxClock
    /\ clock' = clock + 1
    /\ UNCHANGED <<store, nextId, req, res, songs, statistics, filters, net, calls>>

\* POST /api/songs
CreateSong(body, fail) ==
    /\ nextId < MaxIds
    /\ Apply(CreateSongHandler(store, nextId, clock, body, fail),
             Request("create", NoId, NoText))

\* GET /api/songs
GetAllSongs(fail) ==
    \E sorted \in SortedByCreatedDesc(store) :
        Apply(GetAllSongsHandler(store, nextId, sorted, fail),
              Request("getAll", NoId, NoText))

\* PUT /api/songs/:id
UpdateSong(id, body, fail) ==
    Apply(UpdateSongHandler(store, nextId, clock, id, body, fail),
          Request("update", id, NoText))

\* DELETE /api/songs/:id
DeleteSong(id, fail) ==
    Apply(DeleteSongHandler(store, nextId, id, fail),
          Request("delete", id, NoText))

\* GET /api/songs/filter?genre=
FilterSongs(genre, fail) ==
    \E sorted \in SortedByCreatedDesc(FindByGenreExact(store, genre)) :
        Apply(FilterSongsHandler(store, nextId, genre, sorted, fail),
              Request("filter", NoId, genre))

\* GET /api/statistics
GetStatistics(fail) ==
    Apply(GetStatisticsHandler(store, nextId, fail),
          Request("stats", NoId, NoText))

\* The store model: every route, with valid bodies, one invalid body and
\* every kind of identifier.  The database call throws only in requests
\* that reach it; one body and one id stand for the requests that do.
Next ==
    \/ Tick
    \/ \E body \in CrudBodies : CreateSong(body, FALSE)
    \/ CreateSong(Song2, TRUE)
    \/ GetAllSongs(FALSE)
    \/ GetAllSongs(TRUE)
    \/ \E in \in UpdateInputs : UpdateSong(in[1], in[2], FALSE)
    \/ UpdateSong(ObjectId(0), Song2, TRUE)
    \/ \E id \in CrudIds : DeleteSong(id, FALSE)
    \/ DeleteSong(ObjectId(0), TRUE)
    \/ \E genre \in GenreQueries : FilterSongs(genre, FALSE)
    \/ FilterSongs(<<"r">>, TRUE)
    \/ GetStatistics(FALSE)
    \/ GetStatistics(TRUE)

Spec == Init /\ [][Next]_vars

\* The validation model: create and update with every body of the pool
NextValidation ==
    \/ \E body \in Bodies : CreateSong(body, FALSE)
    \/ \E in \in ValidationUpdateInputs : UpdateSong(in[1], in[2], FALSE)
    \/ UpdateSong(ObjectId(0), Song1PaddedLong, FALSE)
    \/ \E id \in AllIds : DeleteSong(id, FALSE)

SpecValidation == Init /\ [][NextValidation]_vars

\* The statistics model: the store is built by creates, updates and deletes
\* of records that differ in artist, album and genre, and is then scanned
NextStatistics ==
    \/ \E body \in StatisticsBodies : CreateSong(body, FALSE)
    \/ \E id \in WellFormedIds, body \in StatisticsBodies : UpdateSong(id, body, FALSE)
    \/ \E id \in WellFormedIds : DeleteSong(id, FALSE)
    \/ GetStatistics(FALSE)

SpecStatistics == Init /\ [][NextStatistics]_vars

\* The filter model: records that share a genre or differ in it by letter
\* case only are created at different times and removed, and the
\* collection is filtered by genre
NextFilter ==
    \/ Tick
    \/ \E body \in StatisticsBodies : CreateSong(body, FALSE)
    \/ \E id \in WellFormedIds : DeleteSong(id, FALSE)
    \/ \E genre \in GenreQueries : FilterSongs(genre, FALSE)
    \/ FilterSongs(<<"r">>, TRUE)

SpecFilter == Init /\ [][NextFilter]_vars

----------------------------------------------------------------------------
(* The client: the redux slices, the api layer and the sagas *)

\* a redux action
Action(t, p) == [type |-> t, payload |-> p]

\* fetchSongsRequest, createSongRequest, updateSongRequest, deleteSongRequest
\* without the error being cleared
RequestingKeepsError(state) == [state EXCEPT !.loading = TRUE]

\* fetchSongsRequest, createSongRequest, updateSongRequest, deleteSongRequest
Requesting(state) == [state EXCEPT !.loading = TRUE, !.error = NoError]

\* a fetchSongsSuccess that adds the payload to the list
FetchSongsSuccessMerging(state, p) ==
    [state EXCEPT !.loading = FALSE, !.items = p \o @]

\* fetchSongsSuccess
FetchSongsSuccess(state, p) == [state EXCEPT !.loading = FALSE, !.items = p]

\* a createSongSuccess that pushes instead of unshifting
CreateSongSuccessPushing(state, p) ==
    [state EXCEPT !.loading = FALSE, !.items = Append(@, p)]

\* createSongSuccess: state.items.unshift(action.payload)
CreateSongSuccess(state, p) ==
    [state EXCEPT !.loading = FALSE, !.items = <<p>> \o @]

\* an updateSongSuccess that adds the payload when no item has its id
UpdateSongSuccessUpserting(state, p) ==
    [state EXCEPT !.loading = FALSE,
                  !.items = IF IndexOf(@, p._id) = {} THEN <<p>> \o @
                            ELSE [i \in 1..Len(@) |->
                                    IF i \in IndexOf(@, p._id) /\
                                       \A j \in IndexOf(@, p._id) : i <= j
                                    THEN p ELSE @[i]]]

\* updateSongSuccess: findIndex, and the item at the index found is replaced
UpdateSongSuccess(state, p) ==
    [state EXCEPT !.loading = FALSE,
                  !.items = [i \in 1..Len(@) |->
                                IF i \in IndexOf(@, p._id) /\
                                   \A j \in IndexOf(@, p._id) : i <= j
                                THEN p ELSE @[i]]]

\* a deleteSongSuccess whose filter keeps the wrong side
DeleteSongSuccessInverted(state, p) ==
    [state EXCEPT !.loading = FALSE,
                  !.items = SelectSeq(@, LAMBDA song : song._id = p)]

\* deleteSongSuccess: state.items.filter(song => song._id !== action.payload)
DeleteSongSuccess(state, p) ==
    [state EXCEPT !.loading = FALSE,
                  !.items = SelectSeq(@, LAMBDA song : song._id # p)]

\* a failure reducer that also empties the list
FailedClearing(state, p) ==
    [state EXCEPT !.loading = FALSE, !.error = p, !.items = <<>>]

\* a failure reducer that leaves the loading flag as it is
FailedStillLoading(state, p) == [state EXCEPT !.error = p]

\* fetchSongsFailure, createSongFailure, updateSongFailure, deleteSongFailure
Failed(state, p) == [state EXCEPT !.loading = FALSE, !.error = p]

\* songsSlice.reducer (selectedSong is left out: no saga reads or writes it)
SongsReducer(state, action) ==
    LET t == action.type
        p == action.payload
    IN CASE t \in {"songs/fetchSongsRequest", "songs/createSongRequest",
                   "songs/updateSongRequest", "songs/deleteSongRequest"} ->
                Requesting(state)
         [] t = "songs/fetchSongsSuccess" -> FetchSongsSuccess(state, p)
         [] t = "songs/createSongSuccess" -> CreateSongSuccess(state, p)
         [] t = "songs/updateSongSuccess" -> UpdateSongSuccess(state, p)
         [] t = "songs/deleteSongSuccess" -> DeleteSongSuccess(state, p)
         [] t \in {"songs/fetchSongsFailure", "songs/createSongFailure",
                   "songs/updateSongFailure", "songs/deleteSongFailure"} ->
                Failed(state, p)
         [] OTHER -> state

\* statisticsSlice.reducer
StatisticsReducer(state, action) ==
    LET t == action.type
        p == action.payload
    IN CASE t = "statistics/fetchStatisticsRequest" ->
                [state EXCEPT !.loading = TRUE, !.error = NoError]
         [] t = "statistics/fetchStatisticsSuccess" ->
                [state EXCEPT !.loading = FALSE, !.data = p]
         [] t = "statistics/fetchStatisticsFailure" ->
                [state EXCEPT !.loading = FALSE, !.error = p]
         [] OTHER -> state

\* filtersSlice.reducer
FiltersReducer(state, action) ==
    IF action.type = "filters/setGenreFilter"
    THEN [state EXCEPT !.genre = action.payload]
    ELSE state

\* combineReducers: the client state m = [songs, statistics, filters, net]
Reduce(m, action) ==
    [m EXCEPT !.songs = SongsReducer(@, action),
              !.statistics = StatisticsReducer(@, action),
              !.filters = FiltersReducer(@, action)]

\* no response yet
NoResp == [none |-> TRUE]

\* the arguments of an api function: createSong(data), updateSong(id, data),
\* deleteSong(id), filterSongsByGenre(genre), and none for the two fetches
Arg(id, data, genre) == [id |-> id, data |-> data, genre |-> genre]
NoArg == Arg(NoId, NoBody, NoText)

\* yield call(api.x, arg): the request goes out and the task waits.
\* cancelled: the task was cancelled; last: the task is its watcher's
\* lastTask; resp: what the api function returned or threw, once the
\* server has answered
Call(saga, api, arg) ==
    [saga |-> saga, api |-> api, arg |-> arg,
     cancelled |-> FALSE, last |-> TRUE, resp |-> NoResp]

\* a watcher that forgets its lastTask without cancelling it
ForgetLastTask(n, saga) ==
    [i \in 1..Len(n) |->
        IF n[i].saga = saga THEN [n[i] EXCEPT !.last = FALSE] ELSE n[i]]

\* a watcher that cancels the running tasks of every watcher
CancelEveryTask(n, saga) ==
    [i \in 1..Len(n) |-> [n[i] EXCEPT !.cancelled = TRUE, !.last = FALSE]]

\* takeLatest: if (lastTask) cancel(lastTask), before the new task is forked
CancelLastTask(n, saga) ==
    [i \in 1..Len(n) |->
        IF n[i].saga = saga
        THEN [n[i] EXCEPT !.cancelled = TRUE, !.last = FALSE]
        ELSE n[i]]

\* yield call(api.x, arg) in a task: the request goes out
Issue(m, saga, api, arg) ==
    [m EXCEPT !.net = Append(@, Call(saga, api, arg)), !.calls = @ + 1]

\* takeLatest(pattern, saga) takes an action: the task forked for it runs
\* to its call effect
TakeLatest(m, saga, api, arg) ==
    Issue([m EXCEPT !.net = CancelLastTask(@, saga)], saga, api, arg)

\* store.dispatch(action) and put(action): the reducers run, then the
\* watcher of the action's type takes it
RECURSIVE Dispatch(_, _)
\* filterSongsSaga up to its call effect, or to its end
FilterSongsSagaStart(m, genre) ==
    IF genre # NoText
    THEN LET m1 == Dispatch([m EXCEPT !.net = CancelLastTask(@, "filterSongsSaga")],
                            Action("songs/fetchSongsRequest", NoData))
         IN Issue(m1, "filterSongsSaga", "filterSongsByGenre",
                  Arg(NoId, NoBody, genre))
    ELSE Dispatch([m EXCEPT !.net = CancelLastTask(@, "filterSongsSaga")],
                  Action("songs/fetchSongsRequest", NoData))

Dispatch(m, action) ==
    LET r == Reduce(m, action)
        t == action.type
        p == action.payload
    IN CASE t = "songs/fetchSongsRequest" ->
                TakeLatest(r, "fetchSongsSaga", "fetchSongs", NoArg)
         [] t = "songs/createSongRequest" ->
                TakeLatest(r, "createSongSaga", "createSong", Arg(NoId, p, NoText))
         [] t = "songs/updateSongRequest" ->
                TakeLatest(r, "updateSongSaga", "updateSong", Arg(p.id, p.data, NoText))
         [] t = "songs/deleteSongRequest" ->
                TakeLatest(r, "deleteSongSaga", "deleteSong", Arg(p, NoBody, NoText))
         [] t = "statistics/fetchStatisticsRequest" ->
                TakeLatest(r, "fetchStatisticsSaga", "fetchStatistics", NoArg)
         [] t = "filters/setGenreFilter" ->
                FilterSongsSagaStart(r, p)
         [] OTHER -> r

\* axios rejects a response outside 2xx with this error.message
ErrorMessage(status) == <<"Request failed with status code", status>>

\* what the api function returns (response.data.data, or the id for
\* deleteSong) or throws, for the server's response r
ApiReturn(api, arg, r) ==
    IF r.status \in 200..299
    THEN [ok |-> TRUE, value |-> IF api = "deleteSong" THEN arg.id ELSE r.data]
    ELSE [ok |-> FALSE, error |-> ErrorMessage(r.status)]

\* a mutation saga that ends after its success action
SagaEnd(m) == m

\* createSongSaga, updateSongSaga, deleteSongSaga after the success action:
\* yield put(fetchStatisticsRequest())
RefreshStatistics(m) ==
    Dispatch(m, Action("statistics/fetchStatisticsRequest", NoData))

\* a saga that calls its api function again when the call has thrown
ResumeRetrying(m, c) ==
    IF c.resp.ok THEN m ELSE Issue(m, c.saga, c.api, c.arg)

\* the rest of a saga once its call effect has returned or thrown
Resume(m, c) ==
    LET ok == c.resp.ok
        v == IF ok THEN c.resp.value ELSE c.resp.error
    IN CASE c.saga = "fetchSongsSaga" ->
                IF ok THEN Dispatch(m, Action("songs/fetchSongsSuccess", v))
                ELSE Dispatch(m, Action("songs/fetchSongsFailure", v))
         [] c.saga = "createSongSaga" ->
                IF ok
                THEN RefreshStatistics(Dispatch(m, Action("songs/createSongSuccess", v)))
                ELSE Dispatch(m, Action("songs/createSongFailure", v))
         [] c.saga = "updateSongSaga" ->
                IF ok
                THEN RefreshStatistics(Dispatch(m, Action("songs/updateSongSuccess", v)))
                ELSE Dispatch(m, Action("songs/updateSongFailure", v))
         [] c.saga = "deleteSongSaga" ->
                IF ok
                THEN RefreshStatistics(Dispatch(m, Action("songs/deleteSongSuccess", c.arg.id)))
                ELSE Dispatch(m, Action("songs/deleteSongFailure", v))
         [] c.saga = "fetchStatisticsSaga" ->
                IF ok THEN Dispatch(m, Action("statistics/fetchStatisticsSuccess", v))
                ELSE Dispatch(m, Action("statistics/fetchStatisticsFailure", v))
         [] c.saga = "filterSongsSaga" ->
                IF ok THEN Dispatch(m, Action("songs/fetchSongsSuccess", v))
                ELSE Dispatch(m, Action("songs/fetchSongsFailure", v))

\* the bodies the form submits, the body an edit submits, the genres the
\* filter offers (NoText: all genres)
ClientBodies == {Song1, Song1NoGenre}
ClientUpdateBodies == {Song2}
ClientGenres == {NoText, <<"r">>}

ClientState ==
    [songs |-> songs, statistics |-> statistics, filters |-> filters,
     net |-> net, calls |-> calls]

SetClient(m) ==
    /\ songs' = m.songs
    /\ statistics' = m.statistics
    /\ filters' = m.filters
    /\ net' = m.net
    /\ calls' = m.calls

RemoveAt(n, i) == SubSeq(n, 1, i - 1) \o SubSeq(n, i + 1, Len(n))

\* the creates that are on their way to the server
PendingCreates ==
    Cardinality({i \in 1..Len(net) : net[i].api = "createSong" /\ net[i].resp = NoResp})

\* a component of the mounted App dispatches an action
UserDispatch(m) ==
    /\ calls > 0
    /\ Len(m.net) <= MaxInFlight
    /\ m.calls <= MaxCalls
    /\ SetClient(m)
    /\ UNCHANGED serverVars

\* App mounts: useEffect dispatches fetchSongsRequest and fetchStatisticsRequest
Mount ==
    /\ calls = 0
    /\ SetClient(Dispatch(Dispatch(ClientState,
                                   Action("songs/fetchSongsRequest", NoData)),
                          Action("statistics/fetchStatisticsRequest", NoData)))
    /\ UNCHANGED serverVars

\* App.handleCreateSong
HandleCreateSong(data) ==
    /\ IsValid(data) => nextId + PendingCreates < MaxIds
    /\ UserDispatch(Dispatch(ClientState, Action("songs/createSongRequest", data)))

\* App.handleUpdateSong, for a selected song of the list
HandleUpdateSong(id, data) ==
    /\ id \in Ids(songs.items)
    /\ UserDispatch(Dispatch(ClientState,
                             Action("songs/updateSongRequest", [id |-> id, data |-> data])))

\* App.handleDeleteSong, for a song of the list
HandleDeleteSong(id) ==
    /\ id \in Ids(songs.items)
    /\ UserDispatch(Dispatch(ClientState, Action("songs/deleteSongRequest", id)))

\* App.handleFilterChange
HandleFilterChange(genre) ==
    UserDispatch(Dispatch(ClientState, Action("filters/setGenreFilter", genre)))

\* the route the api function requests, and the handler's outcomes for it
ServerOutcomes(c, fail) ==
    CASE c.api = "fetchSongs" ->
            {[out |-> GetAllSongsHandler(store, nextId, sorted, fail),
              req |-> Request("getAll", NoId, NoText)] :
                sorted \in SortedByCreatedDesc(store)}
      [] c.api = "createSong" ->
            {[out |-> CreateSongHandler(store, nextId, clock, c.arg.data, fail),
              req |-> Request("create", NoId, NoText)]}
      [] c.api = "updateSong" ->
            {[out |-> UpdateSongHandler(store, nextId, clock, c.arg.id, c.arg.data,
                                       fail),
              req |-> Request("update", c.arg.id, NoText)]}
      [] c.api = "deleteSong" ->
            {[out |-> DeleteSongHandler(store, nextId, c.arg.id, fail),
              req |-> Request("delete", c.arg.id, NoText)]}
      [] c.api = "fetchStatistics" ->
            {[out |-> GetStatisticsHandler(store, nextId, fail),
              req |-> Request("stats", NoId, NoText)]}
      [] c.api = "filterSongsByGenre" ->
            {[out |-> FilterSongsHandler(store, nextId, c.arg.genre, sorted, fail),
              req |-> Request("filter", NoId, c.arg.genre)] :
                sorted \in SortedByCreatedDesc(FindByGenreExact(store, c.arg.genre))}

\* a server that drops the request of a cancelled task: it answers with an
\* error and leaves the collection as it is
ServerHandleUnlessCancelled(i, fail) ==
    /\ net[i].resp = NoResp
    /\ \E o \in ServerOutcomes(net[i], fail) :
          IF net[i].cancelled
          THEN /\ store' = store
               /\ nextId' = nextId
               /\ net' = [net EXCEPT ![i].resp = [ok |-> FALSE, error |-> ErrorMessage(499)]]
          ELSE /\ store' = o.out.store
               /\ nextId' = o.out.nextId
               /\ net' = [net EXCEPT ![i].resp =
                                        ApiReturn(net[i].api, net[i].arg, o.out.res)]
    /\ UNCHANGED <<clock, req, res, songs, statistics, filters, calls>>

\* the server handles the request of call i and answers it; the response
\* is kept with the call that awaits it
ServerHandle(i, fail) ==
    /\ net[i].resp = NoResp
    /\ \E o \in ServerOutcomes(net[i], fail) :
          /\ store' = o.out.store
          /\ nextId' = o.out.nextId
          /\ net' = [net EXCEPT ![i].resp = ApiReturn(net[i].api, net[i].arg, o.out.res)]
    /\ UNCHANGED <<clock, req, res, songs, statistics, filters, calls>>

\* the response of call i arrives: a cancelled task does not run again,
\* any other task resumes after its call effect
Deliver(i) ==
    /\ net[i].resp # NoResp
    /\ LET m == [ClientState EXCEPT !.net = RemoveAt(@, i)]
       IN SetClient(IF net[i].cancelled THEN m ELSE Resume(m, net[i]))
    /\ UNCHANGED serverVars

\* The client model: the App's dispatches, the server's handling of the
\* requests in flight and the arrival of the responses, in any order.  A
\* mutation fails by its body or its id, a read by a throwing database call.
NextClient ==
    \/ Mount
    \/ \E data \in ClientBodies : HandleCreateSong(data)
    \/ \E id \in WellFormedIds, data \in ClientUpdateBodies : HandleUpdateSong(id, data)
    \/ \E id \in WellFormedIds : HandleDeleteSong(id)
    \/ \E genre \in ClientGenres : HandleFilterChange(genre)
    \/ \E i \in 1..Len(net) : ServerHandle(i, FALSE)
    \/ \E i \in 1..Len(net) :
          net[i].api \in {"fetchSongs", "fetchStatistics"} /\ ServerHandle(i, TRUE)
    \/ \E i \in 1..Len(net) : Deliver(i)

SpecClient == Init /\ [][NextClient]_vars

\* a collection that earlier sessions have filled: Song1 and Song2, created
\* in this order
StockedStore ==
    CreateSongHandler(CreateSongHandler(<<>>, 0, 0, Song1, FALSE).store,
                      1, 0, Song2, FALSE).store

\* the App starts against the filled collection
InitBrowse ==
    /\ store = StockedStore
    /\ nextId = Len(StockedStore)
    /\ clock = 0
    /\ req = Request("none", NoId, NoText)
    /\ res = Failure(0, "", "", <<>>, FALSE)
    /\ InitClient

\* The browsing model: the App mounts and the user changes the genre
\* filter; nothing is created, updated or deleted
NextBrowse ==
    \/ Mount
    \/ \E genre \in ClientGenres : HandleFilterChange(genre)
    \/ \E i \in 1..Len(net) : ServerHandle(i, FALSE)
    \/ \E i \in 1..Len(net) :
          net[i].api \in {"fetchSongs", "fetchStatistics"} /\ ServerHandle(i, TRUE)
    \/ \E i \in 1..Len(net) : Deliver(i)

SpecBrowse == InitBrowse /\ [][NextBrowse]_vars

\* the App starts against a collection that holds Song1
InitEdit ==
    /\ store = SubSeq(StockedStore, 1, 1)
    /\ nextId = 1
    /\ clock = 0
    /\ req = Request("none", NoId, NoText)
    /\ res = Failure(0, "", "", <<>>, FALSE)
    /\ InitClient

\* The editing model: the App mounts and the user creates records and
\* updates and deletes the records of the list, over and over
NextEdit ==
    \/ Mount
    \/ \E data \in ClientBodies : HandleCreateSong(data)
    \/ \E id \in WellFormedIds, data \in ClientUpdateBodies : HandleUpdateSong(id, data)
    \/ \E id \in WellFormedIds : HandleDeleteSong(id)
    \/ \E i \in 1..Len(net) : ServerHandle(i, FALSE)
    \/ \E i \in 1..Len(net) : Deliver(i)

SpecEdit == InitEdit /\ [][NextEdit]_vars

\* SongForm, open for a new song: the submit button is disabled while the
\* songs slice is loading, and onSubmit is App.handleCreateSong
SubmitNewSong(data) ==
    /\ ~songs.loading
    /\ HandleCreateSong(data)

\* SongForm, open for a song of the list (Edit): the submit button is
\* disabled while the songs slice is loading, and onSubmit is
\* App.handleUpdateSong
SubmitEditedSong(id, data) ==
    /\ ~songs.loading
    /\ HandleUpdateSong(id, data)

\* the server handles the request of call i and answers it with a success
ServerAnswersSuccess(i) ==
    /\ ServerHandle(i, FALSE)
    /\ net'[i].resp.ok

\* The synchronized model: the App mounts and the user submits the form,
\* deletes records of the list and changes the genre filter; every call
\* that is answered is answered with a success, so that when no call is in
\* flight every call issued has succeeded
NextSync ==
    \/ Mount
    \/ \E data \in ClientBodies : SubmitNewSong(data)
    \/ \E id \in WellFormedIds, data \in ClientUpdateBodies : SubmitEditedSong(id, data)
    \/ \E id \in WellFormedIds : HandleDeleteSong(id)
    \/ \E genre \in ClientGenres : HandleFilterChange(genre)
    \/ \E i \in 1..Len(net) : ServerAnswersSuccess(i)
    \/ \E i \in 1..Len(net) : Deliver(i)

SpecSync == Init /\ [][NextSync]_vars

\* the server answers a call in flight, or the answer of a call arrives
Responding ==
    \/ \E i \in 1..Len(net) : ServerHandle(i, FALSE)
    \/ \E i \in 1..Len(net) :
          net[i].api \in {"fetchSongs", "fetchStatistics"} /\ ServerHandle(i, TRUE)
    \/ \E i \in 1..Len(net) : Deliver(i)

\* The form model: the App mounts and the user submits the form, deletes
\* records of the list and changes the genre filter; a mutation fails by
\* its body or its id, a read by a throwing database call
NextForm ==
    \/ Mount
    \/ \E data \in ClientBodies : SubmitNewSong(data)
    \/ \E id \in WellFormedIds, data \in ClientUpdateBodies : SubmitEditedSong(id, data)
    \/ \E id \in WellFormedIds : HandleDeleteSong(id)
    \/ \E genre \in ClientGenres : HandleFilterChange(genre)
    \/ Responding

SpecForm == Init /\ [][NextForm]_vars

\* The form model in which every call is answered and every answer
\* arrives: the server answers each request it receives, and the promise
\* of the api function settles
SpecFormLive == SpecForm /\ WF_vars(Responding)

\* the body the form submits while a genre is selected: Song1 with a genre
\* that the filter does not offer
Song1OtherGenre == With(Song1, "genre", <<"j">>)

\* The filtered model: over a collection that holds Song1, the App mounts
\* and the user changes the genre filter and submits the form, for a new
\* song or for a song of the list
NextFiltered ==
    \/ Mount
    \/ \E genre \in ClientGenres : HandleFilterChange(genre)
    \/ SubmitNewSong(Song1OtherGenre)
    \/ \E id \in WellFormedIds : SubmitEditedSong(id, Song1OtherGenre)
    \/ \E i \in 1..Len(net) : ServerHandle(i, FALSE)
    \/ \E i \in 1..Len(net) : Deliver(i)

SpecFiltered == InitEdit /\ [][NextFiltered]_vars

\* an HTTP client calls api.updateSong(id, data): the PUT request is on its
\* way, next to the requests of other clients
PutSong(id, data) ==
    /\ Len(net) < MaxInFlight
    /\ net' = Append(net, Call("none", "updateSong", Arg(id, data, NoText)))
    /\ UNCHANGED <<store, nextId, clock, req, res, songs, statistics, filters, calls>>

\* the response of call i reaches the client that sent the request
Respond(i) ==
    /\ net[i].resp # NoResp
    /\ net' = RemoveAt(net, i)
    /\ UNCHANGED <<store, nextId, clock, req, res, songs, statistics, filters, calls>>

\* the bodies and ids of the concurrent writers
WriterBodies == {Song1, Song2, Song3}
WriterIds == {ObjectId(0), ObjectId(1)}

\* The writers model: clients send updates of the records of a filled
\* collection, and the server handles the requests that are in flight in
\* any order
NextWriters ==
    \/ \E id \in WriterIds, data \in WriterBodies : PutSong(id, data)
    \/ \E i \in 1..Len(net) : ServerHandle(i, FALSE)
    \/ \E i \in 1..Len(net) : Respond(i)

SpecWriters == InitBrowse /\ [][NextWriters]_vars

----------------------------------------------------------------------------
(* Properties of the record store and the CRUD service *)


\* every identifier the generator has handed out so far
AssignedIds == {ObjectId(k) : k \in 0..(nextId - 1)}

C2_UniqueIds ==
    \A i, j \in 1..Len(store) : i # j => store[i]._id # store[j]._id

\* two records are live, the second created after a delete
C2_Witness == Len(store) = 2 /\ req.op = "update" /\ res.status = 200


\* the fields of a body that are absent, empty once trimmed, or longer
\* than their bound once trimmed
Offending(body) ==
    {f \in FieldSet :
        \/ f \notin DOMAIN body
        \/ Trim(body[f]) = <<>>
        \/ Len(Trim(body[f])) > MaxLen(f)}

\* the bodies of the pool with such a field
OffendingBodies == {body \in Bodies : Offending(body) # {}}

RejectedAsInvalid(r, body) ==
    /\ r.status = 400 /\ ~r.success /\ r.code = "VALIDATION_ERROR"
    /\ r.details # <<>>
    /\ \A i \in 1..Len(r.details) : r.details[i].field \in Offending(body)

\* C3: a create or an update (of a well-formed id) whose body has a field
\* that is absent, empty after trimming or over its bound fails with
\* VALIDATION_ERROR, names an offending field, and leaves the store as it
\* was; bodies that supply only some of the fields are among them
C3_ValidationRejection ==
    [][\A body \in OffendingBodies :
            /\ (req'.op = "create" /\ CreateSong(body, FALSE)) =>
                    RejectedAsInvalid(res', body) /\ store' = store
            /\ (/\ req'.op = "update" /\ req'.id \in WellFormedIds
                /\ UpdateSong(req'.id, body, FALSE)) =>
                    RejectedAsInvalid(res', body) /\ store' = store]_vars

\* an update of a live record that supplied no artist has been rejected
C3_Witness ==
    /\ req.op = "update" /\ req.id \in Ids(store)
    /\ res.code = "VALIDATION_ERROR"
    /\ res.details = <<[field |-> "artist", type |-> "any.required"]>>

ValuesOf(st, f) == {st[i][f] : i \in 1..Len(st)}
CountOf(st, f, v) == Cardinality({i \in 1..Len(st) : st[i][f] = v})
CountsBy(st, f) == [v \in ValuesOf(st, f) |-> CountOf(st, f, v)]
Permuted(st, p) == [i \in 1..Len(st) |-> st[p[i]]]

\* C4: getStatistics returns the number of live records, the numbers of
\* distinct artists, albums and genres among them, and per genre, artist
\* and album the number of live records with that value; the same result
\* comes out for every order of the records in the collection
C4_StatisticsAccuracy ==
    (req.op = "stats" /\ res.status = 200) =>
        /\ res.data.totalSongs = Len(store)
        /\ res.data.totalArtists = Cardinality(ValuesOf(store, "artist"))
        /\ res.data.totalAlbums = Cardinality(ValuesOf(store, "album"))
        /\ res.data.totalGenres = Cardinality(ValuesOf(store, "genre"))
        /\ res.data.songsByGenre = CountsBy(store, "genre")
        /\ res.data.songsByArtist = CountsBy(store, "artist")
        /\ res.data.songsByAlbum = CountsBy(store, "album")
        /\ \A p \in Injections(Len(store)) :
                GetStatisticsHandler(Permuted(store, p), nextId, FALSE).res.data = res.data

\* statistics were read from a store holding two records of one artist
\* with two albums, after a third record was deleted
C4_Witness ==
    /\ req.op = "stats" /\ res.status = 200
    /\ res.data.totalSongs = 2 /\ res.data.totalArtists = 1
    /\ res.data.totalAlbums = 2

\* C5: after a successful delete, findById finds nothing under the id and
\* no read-all returns it, every other live record is still returned
\* unchanged, and the response carries the removed record
C5_DeleteCompleteness ==
    [][(req'.op = "delete" /\ res'.status = 200 /\ DeleteSong(req'.id, FALSE)) =>
        /\ IndexOf(store', req'.id) = {}
        /\ FindById(store', req'.id) = NoData
        /\ \A sorted \in SortedByCreatedDesc(store') :
              /\ req'.id \notin Ids(sorted)
              /\ \A i \in 1..Len(store) :
                    store[i]._id # req'.id => store[i] \in Range(sorted)
        /\ IndexOf(store, req'.id) # {}
        /\ res'.data = FindById(store, req'.id)
        /\ res'.data._id = req'.id]_vars

\* a record was deleted and another one is still live
C5_Witness ==
    /\ req.op = "delete" /\ res.status = 200
    /\ Len(store) = 1 /\ store[1]._id # req.id

\* C6: a successful update leaves the record with the trimmed payload as
\* its text fields, its id, its createdAt, an updatedAt not before the old
\* one, and every read-all returns the record with exactly these values;
\* no step ever changes the createdAt of a record or lowers its updatedAt
C6_UpdatePersistence ==
    [][/\ \A i \in 1..Len(store), j \in 1..Len(store') :
            store[i]._id = store'[j]._id =>
                /\ store'[j].createdAt = store[i].createdAt
                /\ store'[j].updatedAt >= store[i].updatedAt
       /\ (req'.op = "update" /\ res'.status = 200 /\ clock' = clock) =>
            \A in \in UpdateInputs :
                (req'.id = in[1] /\ UpdateSong(in[1], in[2], FALSE)) =>
                    /\ IndexOf(store, in[1]) # {}
                    /\ \A f \in FieldSet : res'.data[f] = Trim(in[2][f])
                    /\ res'.data._id = in[1]
                    /\ res'.data.createdAt = FindById(store, in[1]).createdAt
                    /\ res'.data.updatedAt >= FindById(store, in[1]).updatedAt
                    /\ Len(store') = Len(store)
                    /\ \A sorted \in SortedByCreatedDesc(store') :
                          \A i \in 1..Len(sorted) :
                              sorted[i]._id = in[1] => sorted[i] = res'.data
                    /\ \A sorted \in SortedByCreatedDesc(store') :
                          in[1] \in Ids(sorted)]_vars

\* a record was updated at a later time than it was created
C6_Witness ==
    /\ req.op = "update" /\ res.status = 200
    /\ res.data.updatedAt > res.data.createdAt
    /\ res.data \in Range(store)

StatisticsOf(st) == GetStatisticsHandler(st, 0, FALSE).res.data
CountIn(map, key) == IF key \in DOMAIN map THEN map[key] ELSE 0

\* C7: a successful create of a record with genre G raises songsByGenre[G]
\* by one (from 0 when G was no key) and totalSongs by one; a successful
\* delete of a record with genre G lowers songsByGenre[G] by one, drops the
\* key when it reaches 0, and lowers totalSongs by one
C7_StatisticsReactivity ==
    [][/\ (req'.op = "create" /\ res'.status = 201) =>
            /\ res'.data.genre \in DOMAIN StatisticsOf(store').songsByGenre
            /\ StatisticsOf(store').songsByGenre[res'.data.genre]
                    = CountIn(StatisticsOf(store).songsByGenre, res'.data.genre) + 1
            /\ StatisticsOf(store').totalSongs = StatisticsOf(store).totalSongs + 1
       /\ (req'.op = "delete" /\ res'.status = 200) =>
            /\ res'.data.genre \in DOMAIN StatisticsOf(store).songsByGenre
            /\ CountIn(StatisticsOf(store').songsByGenre, res'.data.genre)
                    = StatisticsOf(store).songsByGenre[res'.data.genre] - 1
            /\ (StatisticsOf(store).songsByGenre[res'.data.genre] = 1
                    => res'.data.genre \notin DOMAIN StatisticsOf(store').songsByGenre)
            /\ (StatisticsOf(store).songsByGenre[res'.data.genre] > 1
                    => res'.data.genre \in DOMAIN StatisticsOf(store').songsByGenre)
            /\ StatisticsOf(store').totalSongs = StatisticsOf(store).totalSongs - 1]_vars

\* the only record of its genre was deleted while another record stays
C7_Witness ==
    /\ req.op = "delete" /\ res.status = 200
    /\ Len(store) = 1 /\ store[1].genre # res.data.genre

----------------------------------------------------------------------------
(* Properties of the synchronization orchestrator *)

MutationSagas == {"createSongSaga", "updateSongSaga", "deleteSongSaga"}

\* the statistics fetches in flight whose task has not been cancelled
LiveStatisticsCalls(n) ==
    {i \in 1..Len(n) : n[i].api = "fetchStatistics" /\ ~n[i].cancelled}

\* C8: when the response of a create, update or delete arrives at its
\* running saga and is a success, the success action is reduced and a
\* statistics re-fetch is requested: the statistics slice is loading
\* without an error and a new statistics call is in flight; when the
\* response is a failure, the statistics slice and the statistics calls in
\* flight stay as they are
C8_MutationRefreshesStatistics ==
    [][\A i \in 1..Len(net) :
          (net[i].saga \in MutationSagas /\ ~net[i].cancelled /\ Deliver(i)) =>
              IF net[i].resp.ok
              THEN /\ ~songs'.loading
                   /\ statistics'.loading /\ statistics'.error = NoError
                   /\ net' # <<>>
                   /\ net'[Len(net')] = Call("fetchStatisticsSaga", "fetchStatistics", NoArg)
                   /\ calls' = calls + 1
                   /\ Cardinality(LiveStatisticsCalls(net')) = 1
              ELSE /\ ~songs'.loading /\ songs'.error = net[i].resp.error
                   /\ statistics' = statistics
                   /\ net' = RemoveAt(net, i)
                   /\ calls' = calls]_vars

\* a created record is in the list and the statistics requested after it
\* are on their way, and an earlier mutation failed before
C8_Witness ==
    /\ songs.items # <<>> /\ ~songs.loading
    /\ statistics.loading
    /\ \E i \in 1..Len(net) : net[i].api = "fetchStatistics" /\ net[i].last
    /\ store # <<>> /\ nextId = 1

\* C9: the response of a request that a later request of its concern has
\* replaced changes neither the records, nor the statistics, nor a loading
\* or error flag, nor the filter, whether it arrives before or after the
\* later request's response; of each concern at most one request in flight
\* is the latest, and every request starts as the latest of its concern
C9_LatestRequestWins ==
    [][/\ \A i \in 1..Len(net) :
            (~net[i].last /\ Deliver(i)) =>
                /\ songs' = songs /\ statistics' = statistics /\ filters' = filters
                /\ net' = RemoveAt(net, i)
       /\ \A i, j \in 1..Len(net') :
            (net'[i].saga = net'[j].saga /\ net'[i].last /\ net'[j].last) => i = j
       /\ (calls' > calls) => net'[Len(net')].last /\ ~net'[Len(net')].cancelled]_vars

\* a create was replaced by a second create; the server has stored the
\* first one's record and its response has arrived, the second one is still
\* on its way, and the list does not show the record
C9_Witness ==
    /\ Len(store) = 1
    /\ songs.items = <<>> /\ songs.loading
    /\ \E i \in 1..Len(net) :
          net[i].api = "createSong" /\ net[i].last /\ net[i].resp = NoResp
    /\ \A i \in 1..Len(net) : net[i].api = "createSong" => net[i].last

\* the calls of an api function that are in n
CallsOf(n, api) == {i \in 1..Len(n) : n[i].api = api}

\* C10: a genre selection issues the filter-by-genre call for the genre and
\* no unfiltered fetch-all call; clearing the filter issues exactly one
\* call, the unfiltered fetch-all
C10_FilterIssuesOneQuery ==
    [][\A genre \in ClientGenres :
          HandleFilterChange(genre) =>
              IF genre # NoText
              THEN /\ net'[Len(net')].api = "filterSongsByGenre"
                   /\ net'[Len(net')].arg.genre = genre
                   /\ Cardinality(CallsOf(net', "fetchSongs"))
                        <= Cardinality(CallsOf(net, "fetchSongs"))
                   /\ calls' = calls + 1
              ELSE /\ net'[Len(net')].api = "fetchSongs"
                   /\ Cardinality(CallsOf(net', "filterSongsByGenre"))
                        = Cardinality(CallsOf(net, "filterSongsByGenre"))
                   /\ calls' = calls + 1]_vars

\* C11: when a genre is selected, the calls issued for the selection have
\* all succeeded and no call is in flight, every record of the list has the
\* selected genre
C11_FilteredListMatchesGenre ==
    (/\ net = <<>>
     /\ filters.genre # NoText
     /\ ~songs.loading /\ songs.error = NoError) =>
        \A i \in 1..Len(songs.items) : songs.items[i].genre = filters.genre

RecordsSagas ==
    {"fetchSongsSaga", "createSongSaga", "updateSongSaga", "deleteSongSaga",
     "filterSongsSaga"}

\* C12: when the failure of a request arrives at its running saga, the
\* loading flag of its slice becomes false and its error becomes the
\* non-empty message of the failure, and the record list and the
\* statistics snapshot stay exactly as they were
C12_FailureKeepsData ==
    [][\A i \in 1..Len(net) :
          (~net[i].cancelled /\ Deliver(i) /\ ~net[i].resp.ok) =>
              /\ songs'.items = songs.items
              /\ statistics'.data = statistics.data
              /\ net[i].resp.error # NoError
              /\ IF net[i].saga \in RecordsSagas
                 THEN /\ ~songs'.loading
                      /\ songs'.error = net[i].resp.error
                      /\ statistics' = statistics
                 ELSE /\ ~statistics'.loading
                      /\ statistics'.error = net[i].resp.error
                      /\ songs' = songs]_vars

\* a request has failed while the list held a record, and the record is
\* still there
C12_Witness ==
    /\ songs.error # NoError /\ ~songs.loading
    /\ songs.items # <<>>

\* C13: when the success of a create arrives, the created record is the
\* first of the list, the rest of the list is the list as it was, and
\* loading is false
C13_CreatePrepends ==
    [][\A i \in 1..Len(net) :
          (/\ net[i].saga = "createSongSaga" /\ ~net[i].cancelled
           /\ Deliver(i) /\ net[i].resp.ok) =>
              /\ songs'.items # <<>>
              /\ Head(songs'.items) = net[i].resp.value
              /\ Tail(songs'.items) = songs.items
              /\ ~songs'.loading]_vars

\* a second record was created and stands before the first one, and the
\* statistics requested after it are on their way
C13_Witness ==
    /\ Len(songs.items) = 2
    /\ songs.items[1]._id = ObjectId(1) /\ songs.items[2]._id = ObjectId(0)
    /\ ~songs.loading
    /\ \E i \in 1..Len(net) : net[i].api = "fetchStatistics" /\ net[i].resp = NoResp

\* C14: when the success of an update arrives, the list keeps its length;
\* if a record of the list has the id of the returned record, the first
\* such record is replaced by the returned record at its position and
\* every other position is unchanged; if none has, the list is unchanged
C14_UpdateReplacesInPlace ==
    [][\A i \in 1..Len(net) :
          (/\ net[i].saga = "updateSongSaga" /\ ~net[i].cancelled
           /\ Deliver(i) /\ net[i].resp.ok) =>
              LET v == net[i].resp.value
                  idx == IndexOf(songs.items, v._id)
              IN /\ ~songs'.loading
                 /\ Len(songs'.items) = Len(songs.items)
                 /\ IF idx = {} THEN songs'.items = songs.items
                    ELSE \E k \in idx :
                            /\ \A j \in idx : k <= j
                            /\ songs'.items[k] = v
                            /\ \A j \in 1..Len(songs.items) :
                                  j # k => songs'.items[j] = songs.items[j]]_vars

\* the list holds the record as an update has returned it
C14_Witness ==
    /\ ~songs.loading
    /\ \E k \in 1..Len(songs.items) :
          /\ songs.items[k].title = Song2.title
          /\ songs.items[k] \in Range(store)

\* C15: when the success of a delete arrives, no record of the list has
\* the deleted id, and the records with another id are all there, in the
\* order and with the fields they had
C15_DeleteRemovesById ==
    [][\A i \in 1..Len(net) :
          (/\ net[i].saga = "deleteSongSaga" /\ ~net[i].cancelled
           /\ Deliver(i) /\ net[i].resp.ok) =>
              /\ net[i].arg.id \notin Ids(songs'.items)
              /\ songs'.items =
                    SelectSeq(songs.items, LAMBDA song : song._id # net[i].arg.id)
              /\ ~songs'.loading]_vars

\* the only record was deleted on the server and in the list, and the
\* statistics requested after the delete are on their way
C15_Witness ==
    /\ store = <<>> /\ nextId = 1
    /\ songs.items = <<>> /\ ~songs.loading /\ songs.error = NoError
    /\ \A i \in 1..Len(net) : net[i].api = "fetchStatistics"
    /\ \E i \in 1..Len(net) : net[i].resp = NoResp /\ net[i].last

\* C16: a fetch-all, create, update or delete request and a filter change
\* set the records' loading flag, clear their error and leave the list as
\* it is
C16_RequestingSetsLoading ==
    [][(/\ calls' > calls
        /\ \/ Mount
           \/ \E data \in ClientBodies : HandleCreateSong(data)
           \/ \E id \in WellFormedIds, data \in ClientUpdateBodies :
                 HandleUpdateSong(id, data)
           \/ \E id \in WellFormedIds : HandleDeleteSong(id)
           \/ \E genre \in ClientGenres : HandleFilterChange(genre)) =>
            /\ songs'.loading
            /\ songs'.error = NoError
            /\ songs'.items = songs.items]_vars

\* an update was requested for a record of the list after an earlier
\* request had failed
C16_Witness ==
    /\ songs.loading /\ songs.error = NoError
    /\ songs.items # <<>>
    /\ \E i \in 1..Len(net) :
          net[i].api = "updateSong" /\ net[i].last /\ net[i].resp = NoResp

\* C17: when the success of a fetch-all or of a filter query arrives, the
\* list is exactly the returned list and loading is false
C17_QueryReplacesList ==
    [][\A i \in 1..Len(net) :
          (/\ net[i].saga \in {"fetchSongsSaga", "filterSongsSaga"}
           /\ ~net[i].cancelled /\ Deliver(i) /\ net[i].resp.ok) =>
              /\ songs'.items = net[i].resp.value
              /\ ~songs'.loading]_vars

\* the filtered list of one record has replaced the list of two
C17_Witness ==
    /\ filters.genre = Song1.genre
    /\ Len(songs.items) = 1 /\ songs.items[1].genre = Song1.genre
    /\ ~songs.loading
    /\ net = <<>>

\* the fields a failure response lists
ListedFields(r) == {r.details[i].field : i \in 1..Len(r.details)}

\* C18: for a body in which two or more fields are missing, empty after
\* trimming or over their bound, the VALIDATION_ERROR failure of a create
\* or of an update lists every one of these fields
C18_AllViolationsListed ==
    [][\A body \in {b \in OffendingBodies : Cardinality(Offending(b)) >= 2} :
          (\/ CreateSong(body, FALSE)
           \/ (req'.id \in WellFormedIds /\ UpdateSong(req'.id, body, FALSE))) =>
              /\ res'.code = "VALIDATION_ERROR"
              /\ ListedFields(res') = Offending(body)]_vars

\* C19: an update or a delete whose id is not 24 hexadecimal characters
\* fails with INVALID_ID and leaves the collection and the id generator as
\* they were; the answer is the same whatever the body is and whether or
\* not the database would throw, since the database is not reached
C19_InvalidIdRejected ==
    [][(req'.op \in {"update", "delete"} /\ req'.id \in MalformedIds) =>
          /\ res'.status = 400 /\ ~res'.success /\ res'.code = "INVALID_ID"
          /\ store' = store /\ nextId' = nextId
          /\ \A fail \in BOOLEAN :
                /\ DeleteSongHandler(store, nextId, req'.id, fail).res.code = "INVALID_ID"
                /\ DeleteSongHandler(store, nextId, req'.id, fail).store = store
                /\ \A body \in Bodies :
                      /\ UpdateSongHandler(store, nextId, clock, req'.id, body, fail).res.code
                            = "INVALID_ID"
                      /\ UpdateSongHandler(store, nextId, clock, req'.id, body, fail).store
                            = store]_vars

\* a delete with an id that has a character outside the hexadecimal digits
\* was rejected while a record is live
C19_Witness ==
    /\ req.op = "delete" /\ req.id = NonHexId
    /\ res.code = "INVALID_ID"
    /\ store # <<>>

\* C20: an update with a valid body and a delete, of a well-formed id that
\* no live record has, fail with SONG_NOT_FOUND and leave the collection as
\* it was; a delete that follows a successful delete of the same id fails
\* with SONG_NOT_FOUND
C20_NotFound ==
    [][/\ \A in \in UpdateInputs :
            (/\ req'.op = "update" /\ req'.id = in[1]
             /\ in[1] \in WellFormedIds /\ in[1] \notin Ids(store)
             /\ Offending(in[2]) = {}
             /\ UpdateSong(in[1], in[2], FALSE)) =>
                /\ res'.status = 404 /\ ~res'.success
                /\ res'.code = "SONG_NOT_FOUND"
                /\ store' = store /\ nextId' = nextId
       /\ \A id \in WellFormedIds :
            (/\ req'.op = "delete" /\ req'.id = id
             /\ id \notin Ids(store)
             /\ DeleteSong(id, FALSE)) =>
                /\ res'.status = 404 /\ ~res'.success
                /\ res'.code = "SONG_NOT_FOUND"
                /\ store' = store /\ nextId' = nextId
       /\ (/\ req.op = "delete" /\ res.status = 200
           /\ req'.op = "delete" /\ req'.id = req.id
           /\ DeleteSong(req.id, FALSE)) =>
                /\ res'.code = "SONG_NOT_FOUND"
                /\ store' = store]_vars

\* the first record was deleted, and a second delete of its id was
\* answered with SONG_NOT_FOUND
C20_Witness ==
    /\ req.op = "delete" /\ req.id = ObjectId(0)
    /\ res.code = "SONG_NOT_FOUND"
    /\ nextId >= 1 /\ ObjectId(0) \notin Ids(store)

\* the ids of a list of documents, in the order of the list
IdList(docs) == [i \in 1..Len(docs) |-> docs[i]._id]

\* C21: a read-all that reaches the database succeeds with exactly the live
\* records and a count equal to their number; on an empty collection it
\* succeeds with an empty list, count 0 and a message of its own; a
\* read-all that follows a read-all with no write in between returns the
\* same records in the same order
C21_ReadAllExact ==
    [][/\ GetAllSongs(FALSE) =>
            /\ res'.status = 200 /\ res'.success
            /\ Len(res'.data) = Len(store)
            /\ Range(res'.data) = Range(store)
            /\ res'.count = Len(store)
            /\ (store = <<>>) <=> (res'.message = "No songs found")
       /\ (req.op = "getAll" /\ res.success /\ GetAllSongs(FALSE)) =>
            res'.data = res.data]_vars

\* C22: read-all returns the live records most recently created first: of
\* two returned records the one created later comes earlier; an update
\* leaves the creation time of every record, and so the orders a read-all
\* may return, as they were
C22_NewestFirst ==
    [][/\ (req'.op = "getAll" /\ GetAllSongs(FALSE)) =>
            \A i, j \in 1..Len(res'.data) :
                res'.data[i].createdAt > res'.data[j].createdAt => i < j
       /\ (req'.op = "update" /\ res'.success) =>
            /\ IdList(store') = IdList(store)
            /\ \A i \in 1..Len(store) : store'[i].createdAt = store[i].createdAt
            /\ {IdList(s) : s \in SortedByCreatedDesc(store')}
                  = {IdList(s) : s \in SortedByCreatedDesc(store)}]_vars

\* a read-all returned two records, the later created first, and the
\* earlier created one has been updated since its creation
C22_Witness ==
    /\ req.op = "getAll" /\ res.success /\ Len(res.data) = 2
    /\ res.data[1].createdAt > res.data[2].createdAt
    /\ res.data[2].updatedAt > res.data[2].createdAt


\* the characters of the texts of the model in code-point order, and the
\* order of two texts that a sort on a text field uses
CodePoints == <<" ", "0", "M", "R", "a", "b", "g", "m", "p", "r", "x", "y">>
CodePoint(c) == CHOOSE i \in 1..Len(CodePoints) : CodePoints[i] = c
RECURSIVE TextLeq(_, _)
TextLeq(s, t) ==
    IF s = <<>> THEN TRUE
    ELSE IF t = <<>> THEN FALSE
    ELSE IF Head(s) # Head(t) THEN CodePoint(Head(s)) < CodePoint(Head(t))
    ELSE TextLeq(Tail(s), Tail(t))

RECURSIVE SumOf(_)
SumOf(map) ==
    IF DOMAIN map = {} THEN 0
    ELSE LET k == CHOOSE key \in DOMAIN map : TRUE
         IN map[k] + SumOf([key \in DOMAIN map \ {k} |-> map[key]])

\* C24: the values of each grouped map of the statistics (songsByGenre,
\* songsByArtist, songsByAlbum and albumsByArtist) sum to totalSongs
C24_GroupedMapsSumToTotal ==
    (req.op = "stats" /\ res.status = 200) =>
        \A m \in {"songsByGenre", "songsByArtist", "songsByAlbum", "albumsByArtist"} :
            SumOf(res.data[m]) = res.data.totalSongs

\* C24, amended: the values of songsByGenre, of songsByArtist and of
\* songsByAlbum each sum to totalSongs; the values of albumsByArtist sum to
\* the number of distinct (artist, album) pairs among the live records,
\* which is at most totalSongs
C24_SongMapsSumToTotal ==
    (req.op = "stats" /\ res.status = 200) =>
        /\ \A m \in {"songsByGenre", "songsByArtist", "songsByAlbum"} :
              SumOf(res.data[m]) = res.data.totalSongs
        /\ SumOf(res.data.albumsByArtist)
              = Cardinality({<<store[i].artist, store[i].album>> : i \in 1..Len(store)})
        /\ SumOf(res.data.albumsByArtist) <= res.data.totalSongs

\* statistics were read while two records with the same artist and the
\* same album are live: albumsByArtist sums to 1, totalSongs is 2
C24_Witness ==
    /\ req.op = "stats" /\ res.status = 200
    /\ res.data.totalSongs = 2
    /\ SumOf(res.data.albumsByArtist) = 1

\* C25: albumsByArtist has exactly the artists of the live records as keys,
\* and maps each artist to the number of distinct album values, as stored,
\* among the live records of that artist
C25_AlbumsByArtist ==
    (req.op = "stats" /\ res.status = 200) =>
        /\ DOMAIN res.data.albumsByArtist = ValuesOf(store, "artist")
        /\ \A a \in ValuesOf(store, "artist") :
              res.data.albumsByArtist[a]
                 = Cardinality({store[i].album : i \in {j \in 1..Len(store) :
                                                          store[j].artist = a}})

\* statistics were read while two records of one artist are live whose
\* albums differ by letter case only: the artist has two albums
C25_Witness ==
    /\ req.op = "stats" /\ res.status = 200
    /\ Len(store) = 2 /\ store[1].artist = store[2].artist
    /\ store[1].album # store[2].album
    /\ LowerText(store[1].album) = LowerText(store[2].album)
    /\ res.data.albumsByArtist[store[1].artist] = 2


\* C26: every live record has the four text fields, each equal to its
\* trimmed form, not empty and no longer than the bound of the field
\* (title 200, artist 100, album 200, genre 50), and was not updated
\* before it was created
C26_StoredRecordsWellFormed ==
    \A d \in Range(store) :
        /\ \A f \in FieldSet :
              /\ f \in DOMAIN d
              /\ d[f] = TrimEnd(TrimStart(d[f]))
              /\ Len(d[f]) >= 1
              /\ Len(d[f]) <= MaxLen(f)
        /\ d.updatedAt >= d.createdAt

\* a record that was updated after the time of its creation is live, and
\* the last request, an update with a field that is too long, was rejected
C26_Witness ==
    /\ \E d \in Range(store) : d.updatedAt > d.createdAt
    /\ req.op = "update" /\ res.code = "VALIDATION_ERROR"
    /\ res.details # <<>> /\ res.details[1].type = "string.max"


\* the four text fields of a document
TextOf(d) == [f \in FieldSet |-> d[f]]

\* the collection after the server has handled the update of call c and
\* then the update of call d
HandledInOrder(c, d) ==
    UpdateSongHandler(
        UpdateSongHandler(store, nextId, clock, c.arg.id, c.arg.data, FALSE).store,
        nextId, clock, d.arg.id, d.arg.data, FALSE).store

\* the updates in flight that the server has not handled yet
WaitingUpdates ==
    {i \in 1..Len(net) : net[i].api = "updateSong" /\ net[i].resp = NoResp}

\* C27: of two updates in flight at once, to different records, each takes
\* effect on its record and leaves every other record as it was, and the
\* collection is the same whichever the server handles first; to the same
\* record, each succeeds when the server handles it, whatever was handled
\* before, and the record then has the fields of the update handled last
C27_ConcurrentUpdates ==
    [][/\ \A i, j \in WaitingUpdates :
            /\ (net[i].arg.id # net[j].arg.id) =>
                  HandledInOrder(net[i], net[j]) = HandledInOrder(net[j], net[i])
            /\ (i # j /\ net[i].arg.id = net[j].arg.id) =>
                  TextOf(FindById(HandledInOrder(net[i], net[j]), net[j].arg.id))
                     = net[j].arg.data
       /\ \A i \in WaitingUpdates :
            ServerHandle(i, FALSE) =>
                /\ net'[i].resp.ok
                /\ TextOf(FindById(store', net[i].arg.id)) = net[i].arg.data
                /\ \A k \in 1..Len(store) :
                      store[k]._id # net[i].arg.id => store'[k] = store[k]]_vars

\* two updates of the first record with different bodies were in flight at
\* once and both succeeded; the record has the fields of the one sent
\* first, which the server handled last
C27_Witness ==
    /\ Len(net) = 2
    /\ \A i \in 1..2 : net[i].api = "updateSong" /\ net[i].arg.id = ObjectId(0)
                       /\ net[i].resp # NoResp /\ net[i].resp.ok
    /\ net[1].arg.data # net[2].arg.data
    /\ TextOf(FindById(store, ObjectId(0))) = net[1].arg.data


\* the calls in flight of the statistics concern, and of the records concern
StatisticsCallsIn(n) == SelectSeq(n, LAMBDA c : c.saga = "fetchStatisticsSaga")
RecordsCallsIn(n) == SelectSeq(n, LAMBDA c : c.saga \in RecordsSagas)

\* C28: the records concern and the statistics concern are independent:
\* a user's records request leaves the statistics slice and the statistics
\* calls in flight as they are; the arrival of a records response leaves
\* the statistics slice and the statistics calls in flight as they are; the
\* arrival of a statistics response leaves the songs slice, the filter and
\* the records calls in flight as they are
C28_ConcernsIndependent ==
    [][/\ (calls > 0 /\ Len(net') > Len(net)) =>
            /\ statistics' = statistics
            /\ StatisticsCallsIn(net') = StatisticsCallsIn(net)
       /\ \A i \in 1..Len(net) :
            (net[i].saga \in RecordsSagas /\ Deliver(i)) =>
                /\ statistics' = statistics
                /\ StatisticsCallsIn(net') = StatisticsCallsIn(net)
       /\ \A i \in 1..Len(net) :
            (net[i].saga = "fetchStatisticsSaga" /\ Deliver(i)) =>
                /\ songs' = songs /\ filters' = filters
                /\ RecordsCallsIn(net') = RecordsCallsIn(net)]_vars

\* C28, amended: as C28, except that the arrival of a successful create,
\* update or delete response at its running saga issues a statistics
\* request: the statistics slice is reduced by fetchStatisticsRequest (its
\* data stays), and the records calls in flight stay as they are
C28_ConcernsIndependentButRefresh ==
    [][/\ (calls > 0 /\ Len(net') > Len(net)) =>
            /\ statistics' = statistics
            /\ StatisticsCallsIn(net') = StatisticsCallsIn(net)
       /\ \A i \in 1..Len(net) :
            (net[i].saga \in RecordsSagas /\ Deliver(i)) =>
                /\ RecordsCallsIn(net') = RecordsCallsIn(RemoveAt(net, i))
                /\ IF net[i].saga \in MutationSagas /\ ~net[i].cancelled /\ net[i].resp.ok
                   THEN /\ statistics'.data = statistics.data
                        /\ statistics'.loading /\ statistics'.error = NoError
                   ELSE /\ statistics' = statistics
                        /\ StatisticsCallsIn(net') = StatisticsCallsIn(net)
       /\ \A i \in 1..Len(net) :
            (net[i].saga = "fetchStatisticsSaga" /\ Deliver(i)) =>
                /\ songs' = songs /\ filters' = filters
                /\ RecordsCallsIn(net') = RecordsCallsIn(net)]_vars

\* the fetch of the records that the mounting App requested has been
\* answered and applied while its statistics request is still on its way
\* to the server
C28_Witness ==
    /\ calls = 2 /\ Len(net) = 1
    /\ net[1].saga = "fetchStatisticsSaga" /\ net[1].resp = NoResp /\ ~net[1].cancelled
    /\ statistics.loading /\ ~songs.loading


\* the calls of the mutation sagas whose task a later request has cancelled
SupersededMutations ==
    {i \in 1..Len(net) : net[i].saga \in MutationSagas /\ net[i].cancelled}

\* C29: the request of a create, update or delete that a later request has
\* replaced is handled by the server like any other: a valid create adds
\* its record, a valid update of a live record sets its fields, a delete of
\* a live record removes it; the arrival of its response changes neither
\* the songs slice, nor the statistics slice, nor the filter
C29_SupersededStillApplied ==
    [][\A i \in SupersededMutations :
          /\ ServerHandle(i, FALSE) =>
                /\ \E o \in ServerOutcomes([net[i] EXCEPT !.cancelled = FALSE], FALSE) :
                      store' = o.out.store /\ nextId' = o.out.nextId
                /\ (net[i].api = "createSong" /\ Offending(net[i].arg.data) = {}) =>
                      /\ Len(store') = Len(store) + 1
                      /\ TextOf(store'[Len(store')]) = net[i].arg.data
                      /\ net'[i].resp.ok
                /\ (net[i].api = "updateSong" /\ net[i].arg.id \in Ids(store)) =>
                      /\ TextOf(FindById(store', net[i].arg.id)) = net[i].arg.data
                      /\ net'[i].resp.ok
                /\ (net[i].api = "deleteSong" /\ net[i].arg.id \in Ids(store)) =>
                      /\ net[i].arg.id \notin Ids(store')
                      /\ net'[i].resp.ok
          /\ Deliver(i) =>
                /\ songs' = songs /\ statistics' = statistics /\ filters' = filters
                /\ net' = RemoveAt(net, i)]_vars

\* a delete that a second delete replaced has removed the record from the
\* collection, while the list of the client still shows it
C29_Witness ==
    /\ \E i \in SupersededMutations :
          /\ net[i].api = "deleteSong" /\ net[i].resp # NoResp /\ net[i].resp.ok
          /\ net[i].arg.id \notin Ids(store)
          /\ net[i].arg.id \in Ids(songs.items)

\* how many calls of an api function are in n
CountApi(n, api) == Cardinality(CallsOf(n, api))

\* C30: a user's create, update, delete or genre selection issues exactly
\* one call of its api function, clearing the filter issues exactly one
\* fetch of all records, and mounting issues one fetch of the records and
\* one of the statistics; the arrival of a failure issues no call at all;
\* a call is only ever issued by a user's dispatch or by the statistics
\* refresh that follows a successful mutation
C30_NoRetry ==
    [][/\ (calls' > calls) =>
            /\ (\E data \in ClientBodies : HandleCreateSong(data)) =>
                  CountApi(net', "createSong") = CountApi(net, "createSong") + 1
            /\ (\E id \in WellFormedIds, data \in ClientUpdateBodies :
                      HandleUpdateSong(id, data)) =>
                  CountApi(net', "updateSong") = CountApi(net, "updateSong") + 1
            /\ (\E id \in WellFormedIds : HandleDeleteSong(id)) =>
                  CountApi(net', "deleteSong") = CountApi(net, "deleteSong") + 1
            /\ (\E genre \in ClientGenres \ {NoText} : HandleFilterChange(genre)) =>
                  CountApi(net', "filterSongsByGenre")
                     = CountApi(net, "filterSongsByGenre") + 1
            /\ HandleFilterChange(NoText) =>
                  /\ CountApi(net', "fetchSongs") = CountApi(net, "fetchSongs") + 1
                  /\ calls' = calls + 1
            /\ Mount =>
                  /\ CountApi(net', "fetchSongs") = 1
                  /\ CountApi(net', "fetchStatistics") = 1
                  /\ calls' = 2
            /\ \/ Len(net') > Len(net)
               \/ \E i \in 1..Len(net) :
                     /\ net[i].saga \in MutationSagas /\ ~net[i].cancelled
                     /\ net[i].resp # NoResp /\ net[i].resp.ok
                     /\ Deliver(i)
                     /\ calls' = calls + 1
                     /\ net'[Len(net')].api = "fetchStatistics"
       /\ \A i \in 1..Len(net) :
            (net[i].resp # NoResp /\ ~net[i].resp.ok /\ Deliver(i)) =>
                /\ calls' = calls
                /\ net' = RemoveAt(net, i)]_vars

\* a create with an invalid body has failed: its error is shown, no create
\* is in flight and none was issued again
C30_Witness ==
    /\ songs.error = ErrorMessage(400) /\ ~songs.loading
    /\ CountApi(net, "createSong") = 0
    /\ calls = 3 /\ store = <<>>


\* the fixed messages of the handlers' catch blocks
GenericMessages ==
    {"Failed to create song", "Failed to retrieve songs", "Failed to update song",
     "Failed to delete song", "Failed to filter songs", "Failed to retrieve statistics"}

\* the response is the generic internal error, and the error was logged
IsInternalError(r) ==
    /\ r.status = 500 /\ ~r.success /\ r.code = "INTERNAL_ERROR"
    /\ r.message \in GenericMessages
    /\ r.details = <<>> /\ r.data = NoData
    /\ r.logged

\* C31: when the database call of a create, read-all, update, delete,
\* filter or statistics request throws, the response is success=false with
\* the code INTERNAL_ERROR, a fixed message and no details or data, the
\* error is written to the log, and the collection is as it was
C31_StoreFailure ==
    [][(\/ req'.op = "create" /\ CreateSong(Song2, TRUE)
        \/ req'.op = "getAll" /\ GetAllSongs(TRUE)
        \/ req'.op = "update" /\ UpdateSong(ObjectId(0), Song2, TRUE)
        \/ req'.op = "delete" /\ DeleteSong(ObjectId(0), TRUE)
        \/ req'.op = "filter" /\ FilterSongs(<<"r">>, TRUE)
        \/ req'.op = "stats" /\ GetStatistics(TRUE)) =>
            /\ IsInternalError(res')
            /\ store' = store]_vars

\* the database call of a create threw while a record was live: the
\* response is the internal error and the record is still the only one
C31_Witness ==
    /\ req.op = "create" /\ res.code = "INTERNAL_ERROR" /\ res.logged
    /\ Len(store) = 1


\* C32: an update looks at the id first, then at the body, then for the
\* record: with a malformed id it fails with INVALID_ID whatever the body
\* is; with a well-formed id and an invalid body it fails with
\* VALIDATION_ERROR whether or not a record has the id; it fails with
\* SONG_NOT_FOUND exactly when the id is well-formed, the body valid and no
\* live record has the id
C32_UpdateCheckOrder ==
    [][(req'.op = "update") =>
        \A in \in ValidationUpdateInputs :
          (req'.id = in[1] /\ UpdateSong(in[1], in[2], FALSE)) =>
              /\ (in[1] \in MalformedIds) => res'.code = "INVALID_ID"
              /\ (in[1] \in WellFormedIds /\ Offending(in[2]) # {}) =>
                    res'.code = "VALIDATION_ERROR"
              /\ (res'.code = "SONG_NOT_FOUND") <=>
                    /\ in[1] \in WellFormedIds
                    /\ Offending(in[2]) = {}
                    /\ in[1] \notin Ids(store)]_vars

\* an update with an invalid body and the well-formed id of no live record
\* was answered with VALIDATION_ERROR while another record is live
C32_Witness ==
    /\ req.op = "update" /\ req.id \in WellFormedIds /\ req.id \notin Ids(store)
    /\ res.code = "VALIDATION_ERROR"
    /\ store # <<>>

\* the fields of a body whose text, as sent, is longer than the bound
OverlongAsSent(body) == {f \in FieldSet \cap DOMAIN body : Len(body[f]) > MaxLen(f)}

\* C33: a create or an update whose body has a field that is longer, as
\* sent, than the bound of the field fails with VALIDATION_ERROR and writes
\* nothing, also when the field is within the bound once trimmed
C33_UntrimmedLengthRejected ==
    [][\A body \in {b \in Bodies \cup {Song1PaddedLong} : OverlongAsSent(b) # {}} :
          (\/ req'.op = "create" /\ CreateSong(body, FALSE)
           \/ req'.op = "update" /\ UpdateSong(ObjectId(0), body, FALSE)) =>
              /\ res'.code = "VALIDATION_ERROR"
              /\ store' = store]_vars


\* C34: in every state of the client the record list holds no two records
\* with the same id, whatever the order in which the responses of
\* fetch-all, filter and mutation calls are applied
C34_NoDuplicateIds ==
    \A i, j \in 1..Len(songs.items) :
        songs.items[i]._id = songs.items[j]._id => i = j


\* C35: with no genre selected, whenever the App has mounted, no call is
\* in flight and every call issued has been answered with a success, the
\* records of the list are the records of the collection, with the same
\* ids and the same fields
C35_MirrorEqualsStore ==
    (/\ calls > 0 /\ net = <<>>
     /\ filters.genre = NoText) =>
        Range(songs.items) = Range(store)


\* C36: whenever the App has mounted, no call is in flight and every call
\* issued has been answered with a success, the statistics snapshot is the
\* statistics of the records the collection holds now
C36_StatisticsEqualStore ==
    (calls > 0 /\ net = <<>>) => statistics.data = StatisticsOf(store)


\* C37: the loading flag of the songs slice is true whenever a call of a
\* records saga (fetch-all, filter, create, update, delete) is in flight
\* whose task has not been cancelled, so whose response will be applied
C37_LoadingWhileOutstanding ==
    (\E i \in 1..Len(net) : net[i].saga \in RecordsSagas /\ ~net[i].cancelled)
        => songs.loading


\* the records of a list that do not have the genre
NotOfGenre(items, genre) == {k \in 1..Len(items) : items[k].genre # genre}

\* C38: while a genre is selected and every record of the list has it, the
\* success of a create or of an update leaves the list with records of the
\* selected genre only
C38_MutationKeepsFilter ==
    [][\A i \in 1..Len(net) :
          (/\ filters.genre # NoText
           /\ net[i].saga \in {"createSongSaga", "updateSongSaga"}
           /\ ~net[i].cancelled
           /\ NotOfGenre(songs.items, filters.genre) = {}
           /\ Deliver(i) /\ net[i].resp.ok) =>
              NotOfGenre(songs'.items, filters.genre) = {}]_vars


\* C39: when every call is answered and the user stops dispatching, the
\* loading flags of the songs slice and of the statistics slice become
\* false and stay false, also after requests were replaced by later ones
C39_EventuallyIdle == <>[](~songs.loading /\ ~statistics.loading)

\* a request was replaced by a later one; its answer has come and is still
\* to be dropped, while both slices have stopped loading
C39_Witness ==
    /\ ~songs.loading /\ ~statistics.loading
    /\ \E i \in 1..Len(net) : net[i].cancelled /\ net[i].resp # NoResp
    /\ \A i \in 1..Len(net) : net[i].cancelled


\* the ids the generator has given out that no record of the collection
\* has: the record was deleted (only a successful delete takes a record
\* out), or its save has failed
DeletedIds == {ObjectId(n) : n \in {k \in 0..MaxIds : k < nextId}} \ Ids(store)

\* C40: an id whose record was deleted is never again the id of a record
\* of the collection; an update that names it fails and changes nothing,
\* with SONG_NOT_FOUND when its payload is valid; and a create gives its
\* record an id that no record has or ever had
C40_NoResurrection ==
    [][/\ (store' # store) => \A id \in DeletedIds : id \notin Ids(store')
       /\ (req'.op = "update" /\ req'.id \in DeletedIds) =>
            \A in \in UpdateInputs :
                (req'.id = in[1] /\ UpdateSong(in[1], in[2], FALSE)) =>
                    /\ ~res'.success
                    /\ store' = store
                    /\ IsValid(in[2]) => res'.code = "SONG_NOT_FOUND"
       /\ (req'.op = "create" /\ res'.status = 201 /\ nextId' > nextId) =>
            /\ res'.data._id \notin Ids(store) \cup DeletedIds
            /\ res'.data._id \in Ids(store')]_vars

\* the first record was deleted, a second record was created after it, and
\* an update that named the first record's id was answered SONG_NOT_FOUND
C40_Witness ==
    /\ req.op = "update" /\ req.id = ObjectId(0)
    /\ res.code = "SONG_NOT_FOUND"
    /\ Ids(store) = {ObjectId(1)}

====
